---- MODULE Spec2Model ----
(***************************************************************************)
(* A model of jeffa5/matcher: the Graph of src/matching.rs (weights,       *)
(* greedy matching) and the matching round of src/web.rs against the       *)
(* store of src/db.rs.                                                     *)
(*                                                                         *)
(* Rust vectors are modelled as functions over 0..n-1, so that indices     *)
(* read as in the source.  Option<T> is modelled as a sequence: <<>> is    *)
(* None and <<x>> is Some(x).  Iterators and collected results that are    *)
(* only walked front to back are sequences.                                *)
(***************************************************************************)
EXTENDS Integers, Sequences, FiniteSets, TLC

\* ---------------------------------------------------------------- bounds
\* Largest node count of the graphs matching() and edges_for() are applied to.
MaxNodes == 4

\* Largest node count built through the mutating Graph calls.
MaxGraphNodes == 3

\* Longest sequence of mutating Graph calls explored.
MaxCalls == 4

\* Longest argument of update_from_matching explored.
MaxUpdLen == 1

\* Largest node count of the graphs of equal weights matching() is applied to.
MaxEqualNodes == 5

\* Weights given to add_edge and found in the graphs matching() is applied to.
Weights == {0, 5, 9}

\* Weights given to add_edge in the sequences of mutating calls.
GraphWeights == {0, 1, 2}

\* Diagonal weights of the graphs matching() is applied to.
SelfWeights == {0, 9}

\* Identifiers given to add_node in the sequences of mutating calls.
NodePersons == {1, 2}

\* Identifiers of the people signed up with the Database.
People == {1, 2, 3}

\* Most generations allocated where rounds run one after the other.
MaxGenerations == 2

\* Most generations allocated where rounds run at the same time.
MaxOverlapGenerations == 2

\* The four persons of the runs in which everybody meets everybody.
FourPeople == {1, 2, 3, 4}

\* The generations of the three rounds those runs consist of.
ThreeGenerations == {1, 2, 3}

\* People who switch their waiting flag where rounds run at the same time.
OverlapPeople == {1, 2}

\* ------------------------------------------------------- vectors, options
EmptyVec == [i \in {} |-> 0]

Len0(v) == Cardinality(DOMAIN v)

\* Vec::push
push(v, x) == [i \in 0..Len0(v) |-> IF i < Len0(v) THEN v[i] ELSE x]

\* vec![x; n]
vec_of(x, n) == [i \in 0..(n - 1) |-> x]

None == <<>>

Some(x) == <<x>>

\* ------------------------------------------------------------------ Graph
\* Graph::default()
GraphDefault == [nodes |-> EmptyVec, edges |-> EmptyVec]

\* add_edge without the mirrored assignment
add_edge_OneWay(G, id1, id2, weight) ==
    IF ~(Len0(G.nodes) > id1) THEN [g |-> G, panic |-> TRUE]
    ELSE IF ~(Len0(G.nodes) > id2) THEN [g |-> G, panic |-> TRUE]
    ELSE [g |-> [G EXCEPT !.edges[id1][id2] = weight], panic |-> FALSE]

\* Graph::add_edge: the two asserts, then the two assignments in order.
add_edge(G, id1, id2, weight) ==
    IF ~(Len0(G.nodes) > id1) THEN [g |-> G, panic |-> TRUE]
    ELSE IF ~(Len0(G.nodes) > id2) THEN [g |-> G, panic |-> TRUE]
    ELSE [g |-> [G EXCEPT !.edges[id1][id2] = weight,
                          !.edges[id2][id1] = weight],
          panic |-> FALSE]

\* add_node that does not lengthen the existing rows
add_node_NoColumn(G, person) ==
    LET id == Len0(G.nodes)
        nodes1 == push(G.nodes, person)
        edges2 == push(G.edges, vec_of(0, Len0(nodes1)))
    IN [g |-> [nodes |-> nodes1, edges |-> edges2], id |-> id]

\* add_node that returns the node count after the push
add_node_ReturnsLen(G, person) ==
    LET nodes1 == push(G.nodes, person)
        edges1 == [r \in DOMAIN G.edges |-> push(G.edges[r], 0)]
        edges2 == push(edges1, vec_of(0, Len0(nodes1)))
    IN [g |-> [nodes |-> nodes1, edges |-> edges2], id |-> Len0(nodes1)]

\* Graph::add_node: push the person, push a 0 on every row, push a row of
\* zeros as long as the new node list.
add_node(G, person) ==
    LET id == Len0(G.nodes)
        nodes1 == push(G.nodes, person)
        edges1 == [r \in DOMAIN G.edges |-> push(G.edges[r], 0)]
        edges2 == push(edges1, vec_of(0, Len0(nodes1)))
    IN [g |-> [nodes |-> nodes1, edges |-> edges2], id |-> id]

\* Graph::nodes
nodes_of(G) == G.nodes

\* Graph::node
node(G, id) == G.nodes[id]

\* Graph::edge
edge(G, id1, id2) == G.edges[id1][id2]

\* edges_for that leaves out the first column
edges_for_SkipFirst(G, id) ==
    [k \in 1..(Len0(G.edges[id]) - 1) |-> <<k, G.edges[id][k]>>]

\* Graph::edges_for: the row of id, enumerated from column 0.
edges_for(G, id) ==
    [k \in 1..Len0(G.edges[id]) |-> <<k - 1, G.edges[id][k - 1]>>]

\* One iteration of the loop of update_from_matching.  An index outside the
\* matrix panics before the assignment that uses it.
update_pair(G, a, b) ==
    IF ~(a \in DOMAIN G.edges) \/ ~(b \in DOMAIN G.edges[a])
    THEN [g |-> G, panic |-> TRUE]
    ELSE LET G1 == [G EXCEPT !.edges[a][b] = @ + 1]
         IN IF ~(b \in DOMAIN G1.edges) \/ ~(a \in DOMAIN G1.edges[b])
            THEN [g |-> G1, panic |-> TRUE]
            ELSE [g |-> [G1 EXCEPT !.edges[b][a] = @ + 1], panic |-> FALSE]

RECURSIVE update_loop(_, _, _)
update_loop(G, matching, k) ==
    IF k > Len(matching) THEN [g |-> G, panic |-> FALSE]
    ELSE LET r == update_pair(G, matching[k][1], matching[k][2])
         IN IF r.panic THEN r ELSE update_loop(r.g, matching, k + 1)

\* Graph::update_from_matching
update_from_matching(G, matching) == update_loop(G, matching, 1)

\* min_by_key keeping the later of two equal keys
min_by_key_step_Last(acc, e) == IF acc[2] >= e[2] THEN e ELSE acc

\* a fold keeping the greatest key
min_by_key_step_Max(acc, e) == IF acc[2] < e[2] THEN e ELSE acc

\* Iterator::min_by_key folds with "keep the accumulator unless it is
\* strictly greater", so the first of several equal minima is returned.
min_by_key_step(acc, e) == IF acc[2] > e[2] THEN e ELSE acc

RECURSIVE min_by_key_fold(_, _, _)
min_by_key_fold(s, k, acc) ==
    IF k > Len(s) THEN acc
    ELSE min_by_key_fold(s, k + 1, min_by_key_step(acc, s[k]))

min_by_key(s) == IF Len(s) = 0 THEN None ELSE Some(min_by_key_fold(s, 2, s[1]))

\* marking only the index being processed
mark_seen_OnlyId(seen, id, other) == [seen EXCEPT ![id] = TRUE]

\* marking only the partner
mark_seen_OnlyOther(seen, id, other) == [seen EXCEPT ![other] = TRUE]

\* matching.rs lines 71-72
mark_seen(seen, id, other) == [seen EXCEPT ![id] = TRUE, ![other] = TRUE]

\* other_weights without the filter on id
other_weights_NoSelfFilter(G, id, seen) ==
    SelectSeq(edges_for(G, id), LAMBDA e : ~seen[e[1]])

\* other_weights keeping the seen indices instead of the unseen ones
other_weights_SeenOnly(G, id, seen) ==
    SelectSeq(SelectSeq(edges_for(G, id), LAMBDA e : seen[e[1]]),
              LAMBDA e : id # e[1])

\* matching.rs lines 58-62
other_weights(G, id, seen) ==
    SelectSeq(SelectSeq(edges_for(G, id), LAMBDA e : ~seen[e[1]]),
              LAMBDA e : id # e[1])

\* matching.rs lines 66-70
pair_entry(id, other) ==
    IF id < other THEN <<id, Some(other)>> ELSE <<other, Some(id)>>

RECURSIVE matching_loop(_, _, _, _)
matching_loop(G, id, seen, matchings) ==
    IF id >= Len0(nodes_of(G)) THEN matchings
    ELSE IF seen[id] THEN matching_loop(G, id + 1, seen, matchings)
    ELSE LET other_node == min_by_key(other_weights(G, id, seen))
         IN IF other_node # None
            THEN matching_loop(G, id + 1,
                               mark_seen(seen, id, other_node[1][1]),
                               Append(matchings, pair_entry(id, other_node[1][1])))
            ELSE matching_loop(G, id + 1, seen, Append(matchings, <<id, None>>))

\* Graph::matching
matching(G) == matching_loop(G, 0, vec_of(FALSE, Len0(nodes_of(G))), <<>>)

\* The loop of Graph::matching once more, keeping for every index it
\* processes (one that is not skipped at matching.rs lines 54-56) the index,
\* the seen vector it found and the partner min_by_key gave it.
RECURSIVE matching_steps_loop(_, _, _, _)
matching_steps_loop(G, id, seen, steps) ==
    IF id >= Len0(nodes_of(G)) THEN steps
    ELSE IF seen[id] THEN matching_steps_loop(G, id + 1, seen, steps)
    ELSE LET other_node == min_by_key(other_weights(G, id, seen))
         IN IF other_node # None
            THEN matching_steps_loop(G, id + 1,
                    mark_seen(seen, id, other_node[1][1]),
                    Append(steps, [id |-> id, seen |-> seen,
                                   other |-> Some(other_node[1][1])]))
            ELSE matching_steps_loop(G, id + 1, seen,
                    Append(steps, [id |-> id, seen |-> seen, other |-> None]))

matching_steps(G) ==
    matching_steps_loop(G, 0, vec_of(FALSE, Len0(nodes_of(G))), <<>>)

\* ------------------------------------------------------------------ state
VARIABLES
    nodes,      \* Graph.nodes of the graph under test
    edges,      \* Graph.edges of the graph under test
    ret,        \* what the last call on the graph under test returned
    calls,      \* number of mutating calls made on the graph under test
    repeated,   \* the last call repeated the call before it on the same graph
    db,         \* the tables of the Database: people, edges, matches, generations
    rounds,     \* per running trigger_matching: its position and its locals
    since,      \* per person, since the waiting flag was last switched on:
                \* the match rows recorded and the weight increments made
    alone,      \* per round: no other request has run since it read the waiters
    outcome     \* per round: how its last run returned

graphVars == <<nodes, edges, ret, calls, repeated>>

storeVars == <<db, rounds, since, alone, outcome>>

vars == <<nodes, edges, ret, calls, repeated, db, rounds, since, alone, outcome>>

TheGraph == [nodes |-> nodes, edges |-> edges]

Ret(op, arg, val, panic) == [op |-> op, arg |-> arg, val |-> val, panic |-> panic]

\* ------------------------------------------------------------- Database
\* db.rs line 427
week_seconds == 60 * 60 * 24 * 7

\* The instants (seconds) at which requests arrive; everyone signed up at
\* the first one.
SignUpTime == 0
Times ==
    {SignUpTime, SignUpTime + 1, SignUpTime + week_seconds,
     SignUpTime + week_seconds + 1, SignUpTime + 2 * week_seconds + 2}

\* Every order a query without ORDER BY may list the set S in.
RECURSIVE Orderings(_)
Orderings(S) ==
    IF S = {} THEN {<<>>}
    ELSE UNION {{<<x>> \o t : t \in Orderings(S \ {x})} : x \in S}

\* Database::init and migrate, then sign_up_session for every person:
\* people are inserted with waiting = FALSE, the other tables are empty.
\* The edges table maps its primary key (person1, person2) to the weight,
\* 0 where there is no row. The Mutex around the connection is not poisoned.
\* The session created by the sign-up of person p has the identifier p.
DatabaseFor(P) ==
    [people |-> [p \in P |-> FALSE],
     edges |-> [k \in P \X P |-> 0],
     matches |-> <<>>,
     generations |-> {},
     sessions |-> [s \in P |-> Some([person |-> s, last_seen |-> SignUpTime])],
     poisoned |-> FALSE]

DatabaseInit == DatabaseFor(People)

\* "self.connection.lock().unwrap()": every method of Database starts with
\* it, and it panics once a method has panicked while it held the lock.
lock_ok(D) == ~ D.poisoned

\* Database::toggle_waiter
db_toggle_waiter(D, person_id) ==
    [D EXCEPT !.people[person_id] = (IF @ = FALSE THEN TRUE ELSE FALSE)]

\* Database::waiters: the rows of "select id from people WHERE waiting =
\* TRUE", in whatever order the store lists them.
db_waiters(D) == Orderings({p \in DOMAIN D.people : D.people[p]})

\* Database::edges_for: the rows of "select * from edges" with both persons
\* among the waiters, in whatever order the store lists them.
db_edges_for(D, waiters) ==
    LET ws == {waiters[k] : k \in 1..Len(waiters)}
    IN Orderings({<<k[1], k[2], D.edges[k]>> :
                     k \in {e \in ws \X ws : D.edges[e] > 0}})

\* the edges upsert keyed by the unordered pair
upsert_edge_Unordered(E, p1id, p2id) ==
    IF p1id <= p2id THEN [E EXCEPT ![<<p1id, p2id>>] = @ + 1]
    ELSE [E EXCEPT ![<<p2id, p1id>>] = @ + 1]

\* the edges upsert incrementing every row of person1
upsert_edge_WholeRow(E, p1id, p2id) ==
    [k \in DOMAIN E |-> IF k[1] = p1id THEN E[k] + 1 ELSE E[k]]

\* "INSERT INTO edges ... VALUES (?1, ?2, 1) ON CONFLICT (person1, person2)
\* DO UPDATE SET weight = weight + 1"
upsert_edge(E, p1id, p2id) == [E EXCEPT ![<<p1id, p2id>>] = @ + 1]

\* add_matching that leaves the waiting flag of person2 set
clear_waiting_FirstOnly(P, p1id, p2id) == [P EXCEPT ![p1id] = FALSE]

\* add_matching that clears no flag for an absent partner
clear_waiting_PairsOnly(P, p1id, p2id) ==
    IF p2id # None THEN [P EXCEPT ![p1id] = FALSE, ![p2id[1]] = FALSE]
    ELSE P

\* "UPDATE people SET waiting = FALSE WHERE id = ?1 OR id = ?2" and, for an
\* absent partner, "... WHERE id = ?1"
clear_waiting(P, p1id, p2id) ==
    IF p2id # None THEN [P EXCEPT ![p1id] = FALSE, ![p2id[1]] = FALSE]
    ELSE [P EXCEPT ![p1id] = FALSE]

\* Database::add_matching whose statement number done + 1 fails: the
\* statements before it have been executed, each one committed on its own.
db_add_matching_failing(D, p1id, p2id, generation, done) ==
    LET row == [generation |-> generation, person1 |-> p1id, person2 |-> p2id]
    IN [D EXCEPT !.matches = IF done >= 1 THEN Append(@, row) ELSE @,
                 !.edges = IF done >= 2 /\ p2id # None
                           THEN upsert_edge(@, p1id, p2id[1]) ELSE @,
                 !.poisoned = TRUE]

\* Database::add_matching
db_add_matching(D, p1id, p2id, generation) ==
    LET row == [generation |-> generation, person1 |-> p1id, person2 |-> p2id]
    IN [D EXCEPT !.matches = Append(@, row),
                 !.edges = IF p2id # None THEN upsert_edge(@, p1id, p2id[1]) ELSE @,
                 !.people = clear_waiting(@, p1id, p2id)]

SetMax(S) == CHOOSE x \in S : \A y \in S : x >= y

\* add_matching_generation without the "+ 1"
db_add_matching_generation_NoIncrement(D) ==
    LET id == IF D.generations = {} THEN 1 ELSE SetMax(D.generations)
    IN [db |-> [D EXCEPT !.generations = @ \cup {id}], id |-> id]

\* Database::add_matching_generation: max(id) + 1, and the first rowid, 1,
\* when the table is empty (max(id) is NULL there).
db_add_matching_generation(D) ==
    LET id == IF D.generations = {} THEN 1 ELSE SetMax(D.generations) + 1
    IN [db |-> [D EXCEPT !.generations = @ \cup {id}], id |-> id]

\* an expiry test comparing the age of the session with a week
session_expired_ByAge(last_seen, now) == now - last_seen > week_seconds

\* db.rs line 428
session_expired(last_seen, now) == last_seen - now > week_seconds

\* Database::get_session: no row, None; an expired row is deleted, None;
\* else last_seen becomes the time read at db.rs line 431 and the person
\* is returned.
db_get_session(D, session_id, now, time) ==
    IF D.sessions[session_id] = None THEN [db |-> D, val |-> None]
    ELSE LET row == D.sessions[session_id][1]
         IN IF session_expired(row.last_seen, now)
            THEN [db |-> [D EXCEPT !.sessions[session_id] = None], val |-> None]
            ELSE [db |-> [D EXCEPT !.sessions[session_id] =
                                Some([row EXCEPT !.last_seen = time])],
                  val |-> Some(row.person)]

\* ------------------------------------------------------ trigger_matching
RoundIds == {1, 2}

\* The locals of trigger_matching before it has run.
RoundIdle ==
    [pc |-> "idle", waiters |-> <<>>, g |-> GraphDefault,
     waiter_index_mapping |-> <<>>, index_waiter_mapping |-> EmptyVec,
     matching |-> <<>>, generation |-> 0, next |-> 1]

StoreInit ==
    /\ db = DatabaseInit
    /\ rounds = [r \in RoundIds |-> RoundIdle]
    /\ since = [p \in People |-> [rows |-> 0, increments |-> 0]]
    /\ alone = [r \in RoundIds |-> FALSE]
    /\ outcome = [r \in RoundIds |-> "none"]

\* web.rs lines 229-233: one add_node per waiter, and the two mappings.
RECURSIVE add_waiters(_, _, _)
add_waiters(L, waiters, k) ==
    IF k > Len(waiters) THEN L
    ELSE LET r == add_node(L.g, waiters[k])
         IN add_waiters(
                [L EXCEPT !.g = r.g,
                          !.waiter_index_mapping =
                              [p \in DOMAIN @ \cup {waiters[k]} |->
                                  IF p = waiters[k] THEN r.id ELSE @[p]],
                          !.index_waiter_mapping = push(@, waiters[k])],
                waiters, k + 1)

\* web.rs lines 236-242: one add_edge per row of the edges query.
RECURSIVE add_edges(_, _, _)
add_edges(L, rows, k) ==
    IF k > Len(rows) THEN L
    ELSE add_edges(
            [L EXCEPT !.g = add_edge(@, L.waiter_index_mapping[rows[k][1]],
                                     L.waiter_index_mapping[rows[k][2]],
                                     rows[k][3]).g],
            rows, k + 1)

\* Every other round that has read the waiters and not yet returned has now
\* been interleaved with.
Interleaved(r) ==
    [q \in RoundIds |-> IF q = r THEN alone[q] ELSE FALSE]

\* an emptiness test that never holds
waiters_is_empty_Never(waiters) == FALSE

\* web.rs line 225
waiters_is_empty(waiters) == Len(waiters) = 0

\* web.rs lines 220-233: read the waiters; return if there are none, else
\* build the nodes of the Graph.
ReadWaiters(r) ==
    /\ lock_ok(db)
    /\ rounds[r].pc = "idle"
    /\ \E waiters \in db_waiters(db) :
         IF waiters_is_empty(waiters)
         THEN /\ rounds' = [rounds EXCEPT ![r] = RoundIdle]
              /\ outcome' = [outcome EXCEPT ![r] = "empty"]
              /\ alone' = Interleaved(r)
         ELSE /\ rounds' = [rounds EXCEPT ![r] =
                    add_waiters([RoundIdle EXCEPT !.pc = "edges",
                                                  !.waiters = waiters],
                                waiters, 1)]
              /\ outcome' = [outcome EXCEPT ![r] = "none"]
              /\ alone' = [Interleaved(r) EXCEPT ![r] = TRUE]
    /\ UNCHANGED <<db, since>>
    /\ UNCHANGED graphVars

\* web.rs lines 235-244: read the edges among the waiters, set them on the
\* Graph and compute the matching.
ReadEdges(r) ==
    /\ lock_ok(db)
    /\ rounds[r].pc = "edges"
    /\ \E rows \in db_edges_for(db, rounds[r].waiters) :
         LET L == add_edges(rounds[r], rows, 1)
         IN rounds' = [rounds EXCEPT ![r] =
                [L EXCEPT !.pc = "generation", !.matching = matching(L.g)]]
    /\ alone' = Interleaved(r)
    /\ UNCHANGED <<db, since, outcome>>
    /\ UNCHANGED graphVars

\* web.rs line 246
AddMatchingGeneration(r) ==
    /\ lock_ok(db)
    /\ rounds[r].pc = "generation"
    /\ LET a == db_add_matching_generation(db)
       IN /\ db' = a.db
          /\ rounds' = [rounds EXCEPT ![r].pc = "add_matching",
                                      ![r].generation = a.id,
                                      ![r].next = 1]
    /\ alone' = Interleaved(r)
    /\ UNCHANGED <<since, outcome>>
    /\ UNCHANGED graphVars

\* web.rs lines 248-256: one add_matching per entry of the matching; after
\* the last one the handler returns.
AddMatching(r) ==
    /\ lock_ok(db)
    /\ rounds[r].pc = "add_matching"
    /\ LET L == rounds[r]
           e == L.matching[L.next]
           p1 == L.index_waiter_mapping[e[1]]
           p2 == IF e[2] # None THEN Some(L.index_waiter_mapping[e[2][1]]) ELSE None
       IN /\ db' = db_add_matching(db, p1, p2, L.generation)
          /\ IF L.next = Len(L.matching)
             THEN /\ rounds' = [rounds EXCEPT ![r] = RoundIdle]
                  /\ outcome' = [outcome EXCEPT ![r] = "matched"]
             ELSE /\ rounds' = [rounds EXCEPT ![r].next = L.next + 1]
                  /\ UNCHANGED outcome
          /\ since' = [p \in DOMAIN since |->
                IF p = p1 \/ p2 = Some(p)
                THEN [rows |-> since[p].rows + 1,
                      increments |-> since[p].increments
                                        + (IF p2 # None THEN 1 ELSE 0)]
                ELSE since[p]]
    /\ alone' = Interleaved(r)
    /\ UNCHANGED graphVars

\* web.rs toggle_waiter, for the signed-in person.
ToggleWaiter(person_id) ==
    /\ lock_ok(db)
    /\ db' = db_toggle_waiter(db, person_id)
    /\ since' = [since EXCEPT ![person_id] =
                    IF db.people[person_id] THEN @
                    ELSE [rows |-> 0, increments |-> 0]]
    /\ alone' = [q \in RoundIds |-> FALSE]
    /\ UNCHANGED <<rounds, outcome>>
    /\ UNCHANGED graphVars

\* The store reports a failure to the next Database call of a round that
\* has read the waiters: the unwrap() in that call panics with the lock
\* held, so the handler is gone and the Mutex is poisoned. A failing
\* add_matching has executed the statements before the failing one.
FailStore(r) ==
    /\ lock_ok(db)
    /\ rounds[r].pc \in {"edges", "generation", "add_matching"}
    /\ IF rounds[r].pc = "add_matching"
       THEN LET L == rounds[r]
                e == L.matching[L.next]
                p1 == L.index_waiter_mapping[e[1]]
                p2 == IF e[2] # None THEN Some(L.index_waiter_mapping[e[2][1]])
                      ELSE None
            IN \E done \in 0..(IF p2 # None THEN 2 ELSE 1) :
                   /\ db' = db_add_matching_failing(db, p1, p2, L.generation, done)
                   /\ since' = [p \in DOMAIN since |->
                         IF p = p1 \/ p2 = Some(p)
                         THEN [rows |-> since[p].rows + (IF done >= 1 THEN 1 ELSE 0),
                               increments |-> since[p].increments
                                    + (IF done >= 2 /\ p2 # None THEN 1 ELSE 0)]
                         ELSE since[p]]
       ELSE /\ db' = [db EXCEPT !.poisoned = TRUE]
            /\ UNCHANGED since
    /\ rounds' = [rounds EXCEPT ![r].pc = "panicked"]
    /\ outcome' = [outcome EXCEPT ![r] = "panicked"]
    /\ alone' = Interleaved(r)
    /\ UNCHANGED graphVars

\* A further generation may be allocated.
GenerationsLeft(max) == Cardinality(db.generations) < max

StoreStart ==
    /\ StoreInit
    /\ nodes = GraphDefault.nodes
    /\ edges = GraphDefault.edges
    /\ ret = Ret("default", <<>>, <<>>, FALSE)
    /\ calls = 0
    /\ repeated = FALSE

\* Requests handled one after the other or at the same time: each call on
\* the Database takes the connection lock for itself.
Next ==
    \/ \E r \in RoundIds : ReadWaiters(r)
    \/ \E r \in RoundIds : ReadEdges(r)
    \/ \E r \in RoundIds :
            GenerationsLeft(MaxOverlapGenerations) /\ AddMatchingGeneration(r)
    \/ \E r \in RoundIds : AddMatching(r)
    \/ \E person_id \in OverlapPeople : ToggleWaiter(person_id)

Spec == StoreStart /\ [][Next]_vars

\* Rounds triggered one after the other: a single trigger_matching runs at
\* a time; toggle_waiter requests arrive at any time.
NextSeq ==
    \/ ReadWaiters(1)
    \/ ReadEdges(1)
    \/ GenerationsLeft(MaxGenerations) /\ AddMatchingGeneration(1)
    \/ AddMatching(1)
    \/ \E person_id \in People : ToggleWaiter(person_id)

SpecSeq == StoreStart /\ [][NextSeq]_vars

\* Rounds triggered one after the other against a store that may report a
\* failure to any call of a round.
NextFail ==
    \/ NextSeq
    \/ FailStore(1)

SpecFail == StoreStart /\ [][NextFail]_vars

\* Four persons have signed up. Rounds are triggered one after the other,
\* each one when all four persons are waiting; between two rounds the persons
\* switch their waiting flag on again.
StoreStartFour ==
    /\ db = DatabaseFor(FourPeople)
    /\ rounds = [r \in RoundIds |-> RoundIdle]
    /\ since = [p \in FourPeople |-> [rows |-> 0, increments |-> 0]]
    /\ alone = [r \in RoundIds |-> FALSE]
    /\ outcome = [r \in RoundIds |-> "none"]
    /\ nodes = GraphDefault.nodes
    /\ edges = GraphDefault.edges
    /\ ret = Ret("default", <<>>, <<>>, FALSE)
    /\ calls = 0
    /\ repeated = FALSE

AllWaiting == \A p \in DOMAIN db.people : db.people[p]

NextFour ==
    \/ GenerationsLeft(Cardinality(ThreeGenerations)) /\ AllWaiting /\ ReadWaiters(1)
    \/ ReadEdges(1)
    \/ AddMatchingGeneration(1)
    \/ AddMatching(1)
    \/ \E person_id \in FourPeople :
            /\ rounds[1].pc = "idle"
            /\ ~ db.people[person_id]
            /\ ToggleWaiter(person_id)

SpecFour == StoreStartFour /\ [][NextFour]_vars

\* web.rs lines 54-74: the extractor looks the session of the cookie up at
\* the time of the request; the clock read inside get_session is not
\* earlier.
GetSession(session_id, now) ==
    /\ lock_ok(db)
    /\ \E time \in {t \in Times : t >= now} :
         LET r == db_get_session(db, session_id, now, time)
         IN /\ db' = r.db
            /\ ret' = Ret("get_session", <<session_id, now>>, r.val, FALSE)
    /\ UNCHANGED <<nodes, edges, calls, repeated>>
    /\ UNCHANGED <<rounds, since, alone, outcome>>

NextSession == \E session_id \in People, now \in Times : GetSession(session_id, now)

SpecSession == StoreStart /\ [][NextSession]_vars

\* ------------------------------------------- the mutating calls of Graph
InitGraph ==
    /\ nodes = GraphDefault.nodes
    /\ edges = GraphDefault.edges
    /\ ret = Ret("default", <<>>, <<>>, FALSE)
    /\ calls = 0
    /\ repeated = FALSE
    /\ StoreInit

AddNode(person) ==
    /\ calls < MaxCalls
    /\ Len0(nodes) < MaxGraphNodes
    /\ LET r == add_node(TheGraph, person)
       IN /\ nodes' = r.g.nodes
          /\ edges' = r.g.edges
          /\ ret' = Ret("add_node", <<person>>, <<r.id>>, FALSE)
    /\ calls' = calls + 1
    /\ UNCHANGED repeated
    /\ UNCHANGED storeVars

AddEdge(id1, id2, weight) ==
    /\ calls < MaxCalls
    /\ LET r == add_edge(TheGraph, id1, id2, weight)
       IN /\ nodes' = r.g.nodes
          /\ edges' = r.g.edges
          /\ ret' = Ret("add_edge", <<id1, id2, weight>>, <<>>, r.panic)
    /\ calls' = calls + 1
    /\ UNCHANGED repeated
    /\ UNCHANGED storeVars

UpdateFromMatching(m) ==
    /\ calls < MaxCalls
    /\ LET r == update_from_matching(TheGraph, m)
       IN /\ nodes' = r.g.nodes
          /\ edges' = r.g.edges
          /\ ret' = Ret("update_from_matching", <<>>, <<>>, r.panic)
    /\ calls' = calls + 1
    /\ UNCHANGED repeated
    /\ UNCHANGED storeVars

\* Indices a caller may pass: every valid one and the first invalid one.
CallIndices == 0..Len0(nodes)

PairLists ==
    UNION {[1..l -> CallIndices \X CallIndices] : l \in 0..MaxUpdLen}

NextGraph ==
    \/ \E person \in NodePersons : AddNode(person)
    \/ \E id1 \in CallIndices, id2 \in CallIndices, weight \in GraphWeights :
            AddEdge(id1, id2, weight)
    \/ \E m \in PairLists : UpdateFromMatching(m)

SpecGraph == InitGraph /\ [][NextGraph]_vars

\* ------------------------------------- the read-only calls of Graph
\* A graph as add_node and add_edge build it: n nodes, a weight for every
\* two nodes, one weight d on the diagonal.
BuiltGraph(n, w, d) ==
    [nodes |-> [i \in 0..(n - 1) |-> i + 1],
     edges |-> [i \in 0..(n - 1) |-> [j \in 0..(n - 1) |->
                  IF i = j THEN d
                  ELSE IF i < j THEN w[<<i, j>>] ELSE w[<<j, i>>]]]]

UpperPairs(n) == {p \in (0..(n - 1)) \X (0..(n - 1)) : p[1] < p[2]}

InitMatching ==
    /\ \/ \E n \in 0..MaxNodes : \E w \in [UpperPairs(n) -> Weights] :
            \E d \in SelfWeights :
               /\ nodes = BuiltGraph(n, w, d).nodes
               /\ edges = BuiltGraph(n, w, d).edges
       \/ \E n \in 0..MaxEqualNodes : \E w \in Weights : \E d \in SelfWeights :
               /\ nodes = BuiltGraph(n, [p \in UpperPairs(n) |-> w], d).nodes
               /\ edges = BuiltGraph(n, [p \in UpperPairs(n) |-> w], d).edges
    /\ ret = Ret("default", <<>>, <<>>, FALSE)
    /\ calls = 0
    /\ repeated = FALSE
    /\ StoreInit

\* a matching() that also applies update_from_matching to the pairs it found
MatchingCall_Updating ==
    /\ ret.op \in {"default", "matching"}
    /\ ~repeated
    /\ LET m == matching(TheGraph)
           ps == SelectSeq(m, LAMBDA e : e[2] # None)
           r == update_from_matching(TheGraph,
                    [k \in 1..Len(ps) |-> <<ps[k][1], ps[k][2][1]>>])
       IN /\ ret' = Ret("matching", <<>>, m, FALSE)
          /\ nodes' = r.g.nodes
          /\ edges' = r.g.edges
    /\ repeated' = (ret.op = "matching")
    /\ UNCHANGED calls
    /\ UNCHANGED storeVars

\* matching(&self): the receiver is a shared reference and the body assigns
\* to no field of it.
MatchingCall ==
    /\ ret.op \in {"default", "matching"}
    /\ ~repeated
    /\ ret' = Ret("matching", <<>>, matching(TheGraph), FALSE)
    /\ repeated' = (ret.op = "matching")
    /\ UNCHANGED <<nodes, edges, calls>>
    /\ UNCHANGED storeVars

\* edges_for(&self, id), collected
EdgesForCall(id) ==
    /\ ret.op = "default" \/ (ret.op = "edges_for" /\ ret.arg = <<id>>)
    /\ ~repeated
    /\ ret' = Ret("edges_for", <<id>>, edges_for(TheGraph, id), FALSE)
    /\ repeated' = (ret.op = "edges_for")
    /\ UNCHANGED <<nodes, edges, calls>>
    /\ UNCHANGED storeVars

NextMatching ==
    \/ MatchingCall
    \/ \E id \in DOMAIN nodes : EdgesForCall(id)

SpecMatching == InitMatching /\ [][NextMatching]_vars

\* ------------------------------------------------- claims about the Graph
Indices == 0..(Len0(nodes) - 1)

\* How often index i occurs in the entries of a matching result.
Occurrences(m, i) ==
    Cardinality({k \in 1..Len(m) : m[k][1] = i})
        + Cardinality({k \in 1..Len(m) : m[k][2] = Some(i)})

\* C1: matching() ends without error and its result holds every index
\* 0..n-1 exactly once: floor(n/2) pairs over distinct indices, one
\* singleton when n is odd and none when n is even; nothing for n = 0 and
\* one singleton for n = 1.
C1_FullPartition ==
    ret.op = "matching" =>
        LET m == ret.val
            n == Len0(nodes)
        IN /\ ~ret.panic
           /\ \A k \in 1..Len(m) :
                /\ m[k][1] \in Indices
                /\ m[k][2] # None => m[k][2][1] \in Indices
           /\ \A i \in Indices : Occurrences(m, i) = 1
           /\ Cardinality({k \in 1..Len(m) : m[k][2] # None}) = n \div 2
           /\ Cardinality({k \in 1..Len(m) : m[k][2] = None}) = n % 2
           /\ (n = 0 => m = <<>>)
           /\ (n = 1 => m = << <<0, None>> >>)

\* matching() was applied to a graph of three nodes with unequal weights.
C1_Witness ==
    /\ ret.op = "matching"
    /\ Len0(nodes) = 3
    /\ edges[0][1] = 9 /\ edges[0][2] = 0 /\ edges[1][2] = 5
    /\ Len(ret.val) = 2

SetMin(S) == CHOOSE x \in S : \A y \in S : x <= y

\* The partner the greedy rule gives index i among the unseen indices: the
\* minimum weight, and the smallest index among equal weights.
RefPartner(i, unseen) ==
    CHOOSE j \in unseen \ {i} :
        \A k \in unseen \ {i} :
            \/ edges[i][j] < edges[i][k]
            \/ (edges[i][j] = edges[i][k] /\ j <= k)

RECURSIVE RefGreedy(_)
RefGreedy(unseen) ==
    IF unseen = {} THEN <<>>
    ELSE LET i == SetMin(unseen)
         IN IF unseen = {i} THEN << <<i, None>> >>
            ELSE LET j == RefPartner(i, unseen)
                 IN << <<i, Some(j)>> >> \o RefGreedy(unseen \ {i, j})

\* The four nodes of the tie-break example.
IsExampleGraph ==
    /\ Len0(nodes) = 4
    /\ edges[0][1] = 5 /\ edges[0][2] = 0 /\ edges[0][3] = 9
    /\ edges[1][2] = 9 /\ edges[1][3] = 0 /\ edges[2][3] = 5

\* C2: the result of matching() is that of the reference greedy pass
\* (ascending indices, seen ones skipped, the unseen partner of least
\* weight, the smallest index among equal weights), and the example of
\* four nodes gives the pairs (0,2) and (1,3).
C2_GreedyReference ==
    ret.op = "matching" =>
        /\ ret.val = RefGreedy(Indices)
        /\ IsExampleGraph => ret.val = << <<0, Some(2)>>, <<1, Some(3)>> >>

\* matching() was applied to the example.
C2_Witness == ret.op = "matching" /\ IsExampleGraph

\* C3: matching() changes neither the node list nor any weight, and a
\* second call on the unchanged graph returns the sequence the first did.
C3_ReadOnly ==
    [][MatchingCall =>
          /\ nodes' = nodes
          /\ edges' = edges
          /\ (ret.op = "matching" => ret'.val = ret.val)]_vars

\* matching() was called twice on a graph on which a pair was found.
C3_Witness ==
    /\ ret.op = "matching"
    /\ repeated
    /\ Len0(nodes) >= 2

\* C4: after any sequence of add_node, add_edge and update_from_matching
\* calls, weight(i,j) = weight(j,i) for all indices below the node count.
C4_Symmetric ==
    \A i \in Indices : \A j \in Indices : edge(TheGraph, i, j) = edge(TheGraph, j, i)

\* An edge was set and then incremented.
C4_Witness ==
    /\ ret.op = "update_from_matching"
    /\ ~ret.panic
    /\ \E i \in Indices : \E j \in Indices : i # j /\ edge(TheGraph, i, j) = 3

\* C5: add_edge(i, j, weight) with i = j, or with i or j not below the
\* node count, aborts and changes no weight.
C5_SelfOrOutOfRangeIsFatal ==
    [][\A id1 \in CallIndices : \A id2 \in CallIndices : \A weight \in GraphWeights :
          (AddEdge(id1, id2, weight)
              /\ (id1 = id2 \/ id1 >= Len0(nodes) \/ id2 >= Len0(nodes)))
          => (ret'.panic /\ edges' = edges)]_vars

\* C6 as stated: edges_for(i) yields one entry for every other node, in
\* ascending order, and none for i itself.
C6_OtherNodesOnly ==
    ret.op = "edges_for" =>
        LET id == ret.arg[1]
            s == ret.val
        IN /\ \A j \in Indices \ {id} :
                Cardinality({k \in 1..Len(s) : s[k][1] = j}) = 1
           /\ \A k \in 1..Len(s) : s[k][1] # id
           /\ \A k \in 1..Len(s) : s[k][2] = edge(TheGraph, id, s[k][1])
           /\ \A k \in 1..Len(s) : \A l \in 1..Len(s) : k < l => s[k][1] < s[l][1]

\* C6 amended: edges_for(i) yields one entry (j, weight(i,j)) for every
\* node j below the node count, i itself included, in ascending order of
\* j, and yields the same sequence when restarted.
C6_AllNodes ==
    [][\A id \in Indices :
          EdgesForCall(id) =>
              LET s == ret'.val
              IN /\ \A j \in Indices :
                      Cardinality({k \in 1..Len(s) : s[k][1] = j}) = 1
                 /\ \A k \in 1..Len(s) :
                      /\ s[k][1] \in Indices
                      /\ s[k][2] = edge(TheGraph, id, s[k][1])
                 /\ \A k \in 1..Len(s) : \A l \in 1..Len(s) :
                      k < l => s[k][1] < s[l][1]
                 /\ (ret.op = "edges_for" => ret'.val = ret.val)]_vars

\* edges_for was restarted on a node with a diagonal weight set.
C6_Witness ==
    /\ ret.op = "edges_for"
    /\ repeated
    /\ Len0(nodes) = 3
    /\ edge(TheGraph, ret.arg[1], ret.arg[1]) = 9

\* -------------------------------------------------- claims about rounds
\* C7: rounds triggered at the same time behave as if each ran as one
\* atomic unit: a person who switched the waiting flag on once is recorded
\* in the match rows of one round only, and a weight involving that person
\* is incremented by one round only.
C7_RoundsAtomic ==
    \A p \in People : since[p].rows <= 1 /\ since[p].increments <= 1

\* How many recorded match rows paired a with b.
PairedCount(a, b) ==
    Cardinality({k \in 1..Len(db.matches) :
        /\ db.matches[k].person2 # None
        /\ {db.matches[k].person1, db.matches[k].person2[1]} = {a, b}})

\* C8: with rounds run one after the other, the weight a round loads into
\* its Graph for two waiters is the number of earlier rounds that paired
\* them, whichever identifier add_matching was given first and whatever
\* order the store lists waiters and edge rows in.
C8_WeightRoundTrip ==
    \A r \in RoundIds :
        rounds[r].pc = "generation" =>
            LET G == rounds[r].g
            IN \A i \in DOMAIN G.nodes : \A j \in DOMAIN G.nodes :
                i # j => edge(G, i, j) = PairedCount(node(G, i), node(G, j))

\* The rows of generation gen in table M that name person p.
RowsOf(M, gen, p) ==
    {k \in 1..Len(M) :
        /\ M[k].generation = gen
        /\ (M[k].person1 = p \/ M[k].person2 = Some(p))}

\* C9: when a round has run without another request in between, everyone
\* who was waiting when it read the waiters has the flag cleared and is in
\* exactly one match row of its generation; everyone else is in none of
\* them and still has the flag off.
C9_RoundConsumesWaiters ==
    [][\A r \in RoundIds :
          (AddMatching(r) /\ rounds'[r].pc = "idle" /\ alone[r]) =>
              LET W == {rounds[r].waiters[k] : k \in 1..Len(rounds[r].waiters)}
                  gen == rounds[r].generation
              IN /\ \A p \in W :
                      /\ ~db'.people[p]
                      /\ Cardinality(RowsOf(db'.matches, gen, p)) = 1
                 /\ \A p \in People \ W :
                      /\ ~db'.people[p]
                      /\ RowsOf(db'.matches, gen, p) = {}
                 /\ Cardinality({k \in 1..Len(db'.matches) :
                                    db'.matches[k].generation = gen})
                        = (Cardinality(W) + 1) \div 2]_vars

\* A round of three waiters has just ended undisturbed, after an earlier
\* round.
C9_Witness ==
    /\ outcome[1] = "matched"
    /\ alone[1]
    /\ rounds[1].pc = "idle"
    /\ Cardinality(db.generations) = 2
    /\ \A p \in People : Cardinality(RowsOf(db.matches, 2, p)) = 1

\* C10: a round triggered when nobody is waiting returns successfully and
\* changes nothing in the store.
C10_EmptyRoundNoEffect ==
    [][\A r \in RoundIds :
          (ReadWaiters(r) /\ \A p \in People : ~db.people[p]) =>
              /\ db' = db
              /\ rounds'[r].pc = "idle"
              /\ outcome'[r] = "empty"]_vars

\* An empty round has returned after an earlier round recorded matches.
C10_Witness ==
    /\ \E r \in RoundIds : outcome[r] = "empty" /\ rounds[r].pc = "idle"
    /\ db.matches # <<>>
    /\ \A p \in People : ~db.people[p]

\* ------------------------------------- further claims about the Graph
\* All weights between two different nodes are the same.
AllWeightsEqual ==
    \A i \in Indices : \A j \in Indices : \A k \in Indices : \A l \in Indices :
        (i # j /\ k # l) => edges[i][j] = edges[k][l]

\* C15: when all weights are equal, matching() returns the pairs (0,1),
\* (2,3), ... in that order and, for an odd node count n, the singleton
\* n-1 after them.
C15_EqualWeightsInOrder ==
    (ret.op = "matching" /\ AllWeightsEqual) =>
        LET n == Len0(nodes)
        IN ret.val = [k \in 1..((n + 1) \div 2) |->
                        IF 2 * k - 1 < n THEN <<2 * k - 2, Some(2 * k - 1)>>
                        ELSE <<2 * k - 2, None>>]

\* matching() was applied to five nodes with every weight 0.
C15_Witness ==
    /\ ret.op = "matching"
    /\ Len0(nodes) = 5
    /\ \A i \in Indices : \A j \in Indices : edges[i][j] = 0
    /\ ret.val = << <<0, Some(1)>>, <<2, Some(3)>>, <<4, None>> >>

\* C16: after any sequence of Graph mutations from the empty Graph the
\* weight matrix is square with the node count as its side.
C16_SquareMatrix ==
    /\ DOMAIN nodes = 0..(Len0(nodes) - 1)
    /\ DOMAIN edges = DOMAIN nodes
    /\ \A r \in DOMAIN edges : DOMAIN edges[r] = DOMAIN nodes

\* Three nodes were added with an edge set in between.
C16_Witness ==
    /\ ret.op = "add_node"
    /\ Len0(nodes) = 3
    /\ edges[0][1] = 2

\* C17: add_node returns the node count before the call (so the k-th call
\* returns k-1: no other call changes the node count), stores the person
\* at that index with weight 0 to every node, and changes no identifier
\* at an earlier index and no weight between earlier nodes.
C17_AddNodeAppends ==
    [][/\ \A person \in NodePersons :
            AddNode(person) =>
                LET n == Len0(nodes)
                IN /\ ret'.val = <<n>>
                   /\ DOMAIN nodes' = 0..n
                   /\ nodes'[n] = person
                   /\ \A i \in 0..(n - 1) : nodes'[i] = nodes[i]
                   /\ \A i \in 0..(n - 1) : \A j \in 0..(n - 1) :
                        edges'[i][j] = edges[i][j]
                   /\ \A i \in 0..n : edges'[n][i] = 0 /\ edges'[i][n] = 0
       /\ (~ \E person \in NodePersons : AddNode(person)) => nodes' = nodes]_vars

\* A third node was added to a graph whose two nodes had a weight set.
C17_Witness ==
    /\ ret.op = "add_node"
    /\ ret.val = <<2>>
    /\ edges[0][1] = 1
    /\ nodes[0] # nodes[1]

\* C18: every pair (i, j) of the result of matching() has i < j, whatever
\* the weights, diagonal weights included.
C18_PairsAscending ==
    ret.op = "matching" =>
        \A k \in 1..Len(ret.val) :
            ret.val[k][2] # None => ret.val[k][1] < ret.val[k][2][1]

\* matching() paired nodes of a graph whose diagonal is below every other
\* weight.
C18_Witness ==
    /\ ret.op = "matching"
    /\ Len0(nodes) = 3
    /\ \A i \in Indices : \A j \in Indices :
            edges[i][j] = (IF i = j THEN 0 ELSE 9)
    /\ Len(ret.val) = 2

\* The sum of the weights of the pairs of a matching result.
RECURSIVE PairsTotal(_, _)
PairsTotal(m, k) ==
    IF k > Len(m) THEN 0
    ELSE (IF m[k][2] # None THEN edges[m[k][1]][m[k][2][1]] ELSE 0)
            + PairsTotal(m, k + 1)

\* The perfect matchings of the graph: sets of pairs i < j in which every
\* index occurs exactly once.
PerfectMatchings ==
    {M \in SUBSET UpperPairs(Len0(nodes)) :
        \A i \in Indices : Cardinality({p \in M : p[1] = i \/ p[2] = i}) = 1}

RECURSIVE SetTotal(_)
SetTotal(M) ==
    IF M = {} THEN 0
    ELSE LET p == CHOOSE q \in M : TRUE
         IN edges[p[1]][p[2]] + SetTotal(M \ {p})

\* The weight of a minimum-weight perfect matching of the graph.
MinPerfectTotal == SetMin({SetTotal(M) : M \in PerfectMatchings})

\* Four nodes on which the greedy pass takes the pair (0,1) of weight 0 and
\* is left with (2,3) of weight 9, while (0,2) and (1,3) weigh 0 together.
IsGreedyTrap ==
    /\ Len0(nodes) = 4
    /\ edges[0][1] = 0 /\ edges[0][2] = 0 /\ edges[0][3] = 5
    /\ edges[1][2] = 5 /\ edges[1][3] = 0 /\ edges[2][3] = 9

\* C19: there are four nodes and weights for which the pairs matching()
\* returns weigh strictly more than a minimum-weight perfect matching of
\* the same graph.
C19_NotOptimal ==
    (ret.op = "matching" /\ IsGreedyTrap) =>
        PairsTotal(ret.val, 1) > MinPerfectTotal

\* matching() was applied to the four nodes of the trap.
C19_Witness == ret.op = "matching" /\ IsGreedyTrap

\* The indices of the pairs among the first k entries of a matching result.
PairedBefore(m, k) ==
    UNION {{m[l][1], m[l][2][1]} : l \in {x \in 1..(k - 1) : m[x][2] # None}}

\* C20: matching() emits a singleton only for an index all of whose other
\* indices are in pairs emitted before it, for at most one index, and as
\* the last entry of its result.
C20_SingletonLast ==
    ret.op = "matching" =>
        LET m == ret.val
        IN /\ \A k \in 1..Len(m) :
                m[k][2] = None =>
                    /\ k = Len(m)
                    /\ PairedBefore(m, k) = Indices \ {m[k][1]}
           /\ Cardinality({k \in 1..Len(m) : m[k][2] = None}) <= 1

\* matching() paired the first and the third of three nodes and left the
\* second one unpaired.
C20_Witness ==
    /\ ret.op = "matching"
    /\ Len0(nodes) = 3
    /\ edges[0][1] = 9 /\ edges[0][2] = 5
    /\ ret.val = << <<0, Some(2)>>, <<1, None>> >>

\* ------------------------------------------ further claims about rounds
\* C12: add_matching_generation returns one more than the greatest
\* generation identifier in the store (1 when there is none), so above
\* every identifier allocated before, and the identifier is held by no
\* other round and no match row, also when rounds overlap.
C12_GenerationFresh ==
    [][\A r \in RoundIds :
          AddMatchingGeneration(r) =>
              LET id == rounds'[r].generation
              IN /\ id = (IF db.generations = {} THEN 0
                          ELSE SetMax(db.generations)) + 1
                 /\ \A g \in db.generations : g < id
                 /\ \A q \in RoundIds \ {r} : rounds'[q].generation # id
                 /\ \A k \in 1..Len(db.matches) : db.matches[k].generation # id
                 /\ db'.generations = db.generations \cup {id}]_vars

\* Two overlapping rounds have both allocated their generation.
C12_Witness ==
    /\ rounds[1].pc = "add_matching"
    /\ rounds[2].pc = "add_matching"
    /\ rounds[1].generation = 2
    /\ rounds[2].generation = 1

\* The match rows of a generation that have no partner.
AbsentRows(M, gen) ==
    {k \in 1..Len(M) : M[k].generation = gen /\ M[k].person2 = None}

\* C13: when a round returns, its generation has exactly one match row
\* with an absent partner if the number of waiters it read is odd and none
\* if it is even, and the person of that row is one of the waiters and has
\* the waiting flag cleared.
C13_OddRoundOneSingleton ==
    [][\A r \in RoundIds :
          (AddMatching(r) /\ rounds[r].next = Len(rounds[r].matching)) =>
              LET L == rounds[r]
                  absent == AbsentRows(db'.matches, L.generation)
              IN /\ Cardinality(absent) = Len(L.waiters) % 2
                 /\ \A k \in absent :
                        /\ \E w \in 1..Len(L.waiters) :
                                L.waiters[w] = db'.matches[k].person1
                        /\ ~ db'.people[db'.matches[k].person1]]_vars

\* The first round found three persons waiting, paired two of them and
\* recorded the third one alone.
C13_Witness ==
    /\ outcome[1] = "matched"
    /\ db.generations = {1}
    /\ Len(db.matches) = 2
    /\ db.matches[1].person2 # None
    /\ db.matches[2].person2 = None
    /\ \A p \in People : ~ db.people[p]

\* What trigger_matching computes from a listing of the waiters and a
\* listing of their edge rows (web.rs lines 229-244).
round_plan(waiters, rows) ==
    LET L == add_edges(add_waiters([RoundIdle EXCEPT !.waiters = waiters],
                                   waiters, 1), rows, 1)
    IN [L EXCEPT !.matching = matching(L.g)]

\* The pairs and the singleton of a round's matching, as sets of persons.
PlannedGroups(L) ==
    {{L.index_waiter_mapping[L.matching[k][1]]}
        \cup (IF L.matching[k][2] # None
              THEN {L.index_waiter_mapping[L.matching[k][2][1]]} ELSE {})
     : k \in 1..Len(L.matching)}

\* C14: the pairs and the singleton a round is about to record are the
\* same for every order in which the store could have listed the same
\* waiters (and their edge rows).
C14_OrderIndependent ==
    \A r \in RoundIds :
        rounds[r].pc = "generation" =>
            \A waiters \in Orderings({rounds[r].waiters[k] :
                                        k \in 1..Len(rounds[r].waiters)}) :
                \A rows \in db_edges_for(db, waiters) :
                    PlannedGroups(round_plan(waiters, rows))
                        = PlannedGroups(rounds[r])

\* How many match rows of a generation other than gen paired a with b.
PairedCountExcept(a, b, gen) ==
    Cardinality({k \in 1..Len(db.matches) :
        /\ db.matches[k].generation # gen
        /\ db.matches[k].person2 # None
        /\ {db.matches[k].person1, db.matches[k].person2[1]} = {a, b}})

\* C11: after a round was aborted by a failure of the store, nothing of it
\* is left in the store: its generation is not in the generations table,
\* no match row carries it, the weights count the pairs of the other
\* rounds only and, unless somebody toggled in between, everyone the round
\* found waiting is still waiting.
C11_FailedRoundLeavesNothing ==
    \A r \in RoundIds :
        rounds[r].pc = "panicked" =>
            LET L == rounds[r]
            IN /\ L.generation \notin db.generations
               /\ \A k \in 1..Len(db.matches) :
                      db.matches[k].generation # L.generation
               /\ \A a \in People : \A b \in People \ {a} :
                      db.edges[<<a, b>>] + db.edges[<<b, a>>]
                          = PairedCountExcept(a, b, L.generation)
               /\ alone[r] =>
                      \A k \in 1..Len(L.waiters) : db.people[L.waiters[k]]

\* ------------------------------------------- claims about the loop itself
\* C23: whenever matching() processes an unseen index id, every smaller
\* index is seen, so the partner chosen for id is larger than id (the
\* branch pushing (other, Some(id)) is not taken: every entry is the index
\* processed followed by its partner) and the first components of the
\* entries are strictly ascending.
C23_ProcessedIsSmallest ==
    ret.op = "matching" =>
        LET steps == matching_steps(TheGraph)
        IN /\ Len(steps) = Len(ret.val)
           /\ \A k \in 1..Len(steps) :
                /\ \A j \in 0..(steps[k].id - 1) : steps[k].seen[j]
                /\ steps[k].other # None => steps[k].id < steps[k].other[1]
                /\ ret.val[k] = <<steps[k].id, steps[k].other>>
           /\ \A k \in 1..(Len(ret.val) - 1) : ret.val[k][1] < ret.val[k + 1][1]

\* matching() gave the first of four nodes the last one as its partner and
\* then paired the two in between.
C23_Witness ==
    /\ ret.op = "matching"
    /\ Len0(nodes) = 4
    /\ edges[0][3] = 0 /\ edges[0][1] = 5 /\ edges[0][2] = 9
    /\ ret.val = << <<0, Some(3)>>, <<1, Some(2)>> >>

\* ------------------------------------------ the weights a round touches
\* C21: a round changes stored weights only for the pairs it records:
\* every step that changes a weight is an add_matching that has appended
\* a match row with a partner, and it changes no weight of two persons
\* other than the two of that row; so recording a person alone, reading
\* the waiters and the edges and allocating the generation change none.
C21_WeightsOfRecordedPairsOnly ==
    [][db'.edges # db.edges =>
          /\ \E r \in RoundIds : rounds[r].pc = "add_matching"
          /\ Len(db'.matches) = Len(db.matches) + 1
          /\ LET row == db'.matches[Len(db'.matches)]
             IN /\ row.person2 # None
                /\ \A a \in People : \A b \in People :
                        {a, b} # {row.person1, row.person2[1]} =>
                            db'.edges[<<a, b>>] = db.edges[<<a, b>>]]_vars

\* A round of three waiters has recorded a pair and a person alone: the
\* pair has its weight, the person alone has none.
C21_Witness ==
    /\ outcome[1] = "matched"
    /\ Len(db.matches) = 2
    /\ db.matches[1].person2 # None
    /\ db.matches[2].person2 = None
    /\ db.edges[<<db.matches[1].person1, db.matches[1].person2[1]>>] = 1
    /\ \A q \in People :
            /\ db.edges[<<db.matches[2].person1, q>>] = 0
            /\ db.edges[<<q, db.matches[2].person1>>] = 0

\* ----------------------------------------------------- claims on sessions
\* C24: get_session on a stored session returns None and deletes the row
\* when more than a week has passed from its last_seen to now; otherwise
\* it returns the person of the session and sets last_seen to the time of
\* the call.
C24_ExpiredSessionRejected ==
    [][\A session_id \in People : \A now \in Times :
          (GetSession(session_id, now) /\ db.sessions[session_id] # None) =>
              LET row == db.sessions[session_id][1]
              IN IF now - row.last_seen > week_seconds
                 THEN /\ ret'.val = None
                      /\ db'.sessions[session_id] = None
                 ELSE /\ ret'.val = Some(row.person)
                      /\ db'.sessions[session_id] # None
                      /\ db'.sessions[session_id][1].last_seen >= now]_vars

\* ------------------------------------------- four persons, three rounds
\* The match rows of the first three generations that pair a with b.
PairRowsOfThree(a, b) ==
    {k \in 1..Len(db.matches) :
        /\ db.matches[k].generation \in ThreeGenerations
        /\ db.matches[k].person2 # None
        /\ {db.matches[k].person1, db.matches[k].person2[1]} = {a, b}}

\* The first three rounds have recorded all their rows.
ThreeRoundsDone ==
    Cardinality({k \in 1..Len(db.matches) :
                    db.matches[k].generation \in ThreeGenerations})
        = 2 * Cardinality(ThreeGenerations)

\* C22: four persons without history who are all waiting at the start of
\* every round: the first three rounds never pair two of them twice, and
\* once the three rounds are done every two persons were paired exactly
\* once, in whatever order the store lists waiters and edge rows.
C22_EverybodyMeetsOnce ==
    \A a \in FourPeople : \A b \in FourPeople \ {a} :
        /\ Cardinality(PairRowsOfThree(a, b)) <= 1
        /\ ThreeRoundsDone => Cardinality(PairRowsOfThree(a, b)) = 1

\* Three rounds are done, and the store listed person 4 first in the first
\* round and person 2 first in the second one.
C22_Witness ==
    /\ ThreeRoundsDone
    /\ rounds[1].pc = "idle"
    /\ db.generations = ThreeGenerations
    /\ db.matches[1].person1 = 4
    /\ db.matches[3].person1 = 2

====
